---- MODULE Spec2Model ----
(***************************************************************************)
(* Model of backend/calculator.py: the function add(a, b), which returns   *)
(* a + b, and the module-level block that runs when the file is executed   *)
(* directly.  The behaviour of Python's + on the built-in kinds of value   *)
(* (int, float, str, list, None), of == and of str()/format() is modelled  *)
(* by what CPython does for them.                                          *)
(***************************************************************************)
EXTENDS Integers, Sequences, FiniteSets, TLC

VARIABLES
    name,      \* the module's __name__: "__main__" when run directly
    pc,        \* position of the interpreter in the module body
    globals,   \* the module namespace: a function from bound names to values
    tmp,       \* value of the pending add(...) call inside a print statement
    stdout,    \* lines written to standard output, in order
    status,    \* "running", "exit0" (normal end) or "exit1" (unhandled error)
    ncalls,    \* calls of add made by the module's own code
    last,      \* the most recent call of add, by the module or by an importer
    ix,        \* an importing program's two objects, which it passes to add
    iy,
    icalls     \* calls of add made by the importing program

vars == <<name, pc, globals, tmp, stdout, status, ncalls, last, ix, iy, icalls>>

-----------------------------------------------------------------------------
(* Bounds of the value domain an importer draws arguments from.            *)

MaxInt == 1        \* importer ints range over -MaxInt..MaxInt
FracBits == 1      \* finite floats are multiples of 1 / 2^FracBits
MaxFloatInt == 1   \* importer finite floats range over -MaxFloatInt..MaxFloatInt
MaxCalls == 2      \* calls of add an importing program makes

Scale == 2 ^ FracBits

-----------------------------------------------------------------------------
(* Python values.  An int is unbounded: it is written v + h * H, where H    *)
(* stands for an integer beyond the range of a double (H > 2^1024) and v   *)
(* is small, so that h # 0 marks an int no float can hold.  A finite float *)
(* is sign and magnitude q / Scale; every such value and every sum of two  *)
(* of them is exactly representable in a double, so float addition is      *)
(* exact on this domain (no rounding step).                                *)

PyInt(n) == [kind |-> "int", v |-> n, h |-> 0]
PyBig(n, k) == [kind |-> "int", v |-> n, h |-> k]
PyFin(neg, q) == [kind |-> "float", cls |-> "fin", neg |-> neg, q |-> q]
PyInf(neg) == [kind |-> "float", cls |-> "inf", neg |-> neg, q |-> 0]
PyNaN == [kind |-> "float", cls |-> "nan", neg |-> FALSE, q |-> 0]
PyStr(s) == [kind |-> "str", s |-> s]
PyList(xs) == [kind |-> "list", xs |-> xs]
PyNone == [kind |-> "NoneType"]
PyFunction(f) == [kind |-> "function", f |-> f]

\* A float literal given in halves: HalfLit(7) is 3.5.
HalfLit(h) == PyFin(h < 0, (IF h < 0 THEN -h ELSE h) * (Scale \div 2))

Ints == {PyInt(n) : n \in -MaxInt..MaxInt} \cup {PyBig(0, 1), PyBig(0, -1)}
Floats == {PyFin(neg, q) : neg \in BOOLEAN, q \in 0..(MaxFloatInt * Scale)}
              \cup {PyInf(FALSE), PyInf(TRUE), PyNaN}
Strs == {PyStr(""), PyStr("a")}
Lists == {PyList(<<>>), PyList(<<PyInt(1)>>)}
Values == Ints \cup Floats \cup Strs \cup Lists \cup {PyNone}

IsNumeric(x) == x.kind \in {"int", "float"}

-----------------------------------------------------------------------------
(* Outcomes of evaluating an expression: a value, or a raised exception.   *)
(* NotImplemented is what a type's slot returns to decline its operands.   *)

Ok(v) == [ok |-> TRUE, val |-> v]
Raise(exc, msg) == [ok |-> FALSE, exc |-> exc, msg |-> msg]
NotImplemented == [notimpl |-> TRUE]

\* int -> double, for an int in the range of a double (exact on this domain)
FitsFloat(x) == x.kind = "float" \/ x.h = 0
ToFloat(x) ==
    IF x.kind = "float" THEN x
    ELSE PyFin(x.v < 0, (IF x.v < 0 THEN -x.v ELSE x.v) * Scale)

Signed(x) == IF x.neg THEN -x.q ELSE x.q

\* IEEE 754 addition of two doubles, round-to-nearest
FloatAdd(x, y) ==
    IF x.cls = "nan" \/ y.cls = "nan" THEN PyNaN
    ELSE IF x.cls = "inf" /\ y.cls = "inf"
         THEN (IF x.neg = y.neg THEN x ELSE PyNaN)
    ELSE IF x.cls = "inf" THEN x
    ELSE IF y.cls = "inf" THEN y
    ELSE LET s == Signed(x) + Signed(y)
         IN  IF s = 0 THEN PyFin(x.neg /\ y.neg, 0)
             ELSE PyFin(s < 0, IF s < 0 THEN -s ELSE s)

\* the nb_add slot of int and of float
long_add(v, w) ==
    IF v.kind = "int" /\ w.kind = "int" THEN Ok(PyBig(v.v + w.v, v.h + w.h))
    ELSE NotImplemented

\* float's slot converts an int operand to a double first, which raises
\* OverflowError for an int out of range
float_add(v, w) ==
    IF ~(IsNumeric(v) /\ IsNumeric(w)) THEN NotImplemented
    ELSE IF ~(FitsFloat(v) /\ FitsFloat(w))
         THEN Raise("OverflowError", "int too large to convert to float")
    ELSE Ok(FloatAdd(ToFloat(v), ToFloat(w)))

HasNbAdd(x) == x.kind \in {"int", "float"}
NbAdd(t, v, w) == IF t = "int" THEN long_add(v, w) ELSE float_add(v, w)

\* the sq_concat slot of str and of list
HasSqConcat(x) == x.kind \in {"str", "list"}
SqConcat(v, w) ==
    IF v.kind # w.kind
    THEN Raise("TypeError", "can only concatenate " \o v.kind)
    ELSE IF v.kind = "str" THEN Ok(PyStr(v.s \o w.s))
    ELSE Ok(PyList(v.xs \o w.xs))

UnsupportedOperand == Raise("TypeError", "unsupported operand type(s) for +")

\* Faulty variants of a + b: subtraction, int-only addition, an integral
\* float sum returned as an int, None read as 0, and a str operand
\* concatenated with anything.
PyAdd_sub(v, w) ==
    IF IsNumeric(v) /\ IsNumeric(w)
    THEN LET minus == IF w.kind = "int" THEN PyBig(-w.v, -w.h)
                      ELSE [w EXCEPT !.neg = ~w.neg]
         IN  NbAdd(IF v.kind = "int" /\ w.kind = "int" THEN "int" ELSE "float",
                   v, minus)
    ELSE IF HasSqConcat(v) THEN SqConcat(v, w)
    ELSE UnsupportedOperand

PyAdd_intonly(v, w) ==
    IF v.kind = "int" /\ w.kind = "int" THEN long_add(v, w)
    ELSE IF HasSqConcat(v) THEN SqConcat(v, w)
    ELSE UnsupportedOperand

PyAdd_demote(v, w) ==
    LET r == IF HasNbAdd(v) THEN NbAdd(v.kind, v, w)
             ELSE IF HasNbAdd(w) THEN NbAdd(w.kind, v, w)
             ELSE NotImplemented
    IN  IF r = NotImplemented
        THEN (IF HasSqConcat(v) THEN SqConcat(v, w) ELSE UnsupportedOperand)
        ELSE IF ~r.ok THEN r
        ELSE IF r.val.kind = "float" /\ r.val.cls = "fin" /\ r.val.q % Scale = 0
             THEN Ok(PyInt(Signed(r.val) \div Scale))
        ELSE r

PyAdd_none_zero(v, w) ==
    LET z(x) == IF x = PyNone THEN PyInt(0) ELSE x
        r == IF HasNbAdd(z(v)) THEN NbAdd(z(v).kind, z(v), z(w)) ELSE NotImplemented
        r2 == IF r = NotImplemented /\ HasNbAdd(z(w))
              THEN NbAdd(z(w).kind, z(v), z(w)) ELSE r
    IN  IF r2 # NotImplemented THEN r2
        ELSE IF HasSqConcat(v) THEN SqConcat(v, w)
        ELSE UnsupportedOperand

PyAdd_concat_any(v, w) ==
    LET r == IF HasNbAdd(v) THEN NbAdd(v.kind, v, w) ELSE NotImplemented
        r2 == IF r = NotImplemented /\ HasNbAdd(w) /\ w.kind # v.kind
              THEN NbAdd(w.kind, v, w) ELSE r
    IN  IF r2 # NotImplemented THEN r2
        ELSE IF v.kind = "str" THEN Ok(PyStr(v.s \o w.kind))
        ELSE IF w.kind = "str" THEN Ok(PyStr(v.kind \o w.s))
        ELSE IF HasSqConcat(v) THEN SqConcat(v, w)
        ELSE UnsupportedOperand

\* The expression a + b (PyNumber_Add): the left operand's nb_add, then the
\* right operand's when its type differs, then the left operand's sq_concat,
\* and TypeError when every slot declines.
PyAdd(v, w) ==
    LET r1 == IF HasNbAdd(v) THEN NbAdd(v.kind, v, w) ELSE NotImplemented
        r2 == IF w.kind # v.kind /\ HasNbAdd(w)
              THEN NbAdd(w.kind, v, w) ELSE NotImplemented
    IN  IF r1 # NotImplemented THEN r1
        ELSE IF r2 # NotImplemented THEN r2
        ELSE IF HasSqConcat(v) THEN SqConcat(v, w)
        ELSE UnsupportedOperand

\* The comparison x == y on values
PyEq(x, y) ==
    IF IsNumeric(x) /\ IsNumeric(y)
    THEN IF x.kind = "int" /\ y.kind = "int" THEN x.v = y.v /\ x.h = y.h
         ELSE IF ~(FitsFloat(x) /\ FitsFloat(y)) THEN FALSE
         ELSE LET fx == ToFloat(x)
                  fy == ToFloat(y)
              IN  /\ fx.cls # "nan"
                  /\ fy.cls # "nan"
                  /\ fx.cls = fy.cls
                  /\ IF fx.cls = "inf" THEN fx.neg = fy.neg
                     ELSE Signed(fx) = Signed(fy)
    ELSE x = y

-----------------------------------------------------------------------------
(* str() of a value, which is what an f-string field {x} inserts.          *)

Digit == <<"0", "1", "2", "3", "4", "5", "6", "7", "8", "9">>

RECURSIVE NatStr(_)
NatStr(n) ==
    IF n < 10 THEN Digit[n + 1]
    ELSE NatStr(n \div 10) \o Digit[(n % 10) + 1]

\* decimal text of an int (of the small ints; the module prints no other)
int_str(n) == IF n < 0 THEN "-" \o NatStr(-n) ELSE NatStr(n)

\* decimal digits of the fraction num / den, 0 < num < den, den a power of 2
RECURSIVE FracDigits(_, _)
FracDigits(num, den) ==
    IF num = 0 THEN ""
    ELSE Digit[((num * 10) \div den) + 1] \o FracDigits((num * 10) % den, den)

float_repr_int(x) ==
    IF x.cls = "nan" THEN "nan"
    ELSE IF x.cls = "inf" THEN (IF x.neg THEN "-inf" ELSE "inf")
    ELSE (IF x.neg THEN "-" ELSE "") \o NatStr(x.q \div Scale)
             \o (IF x.q % Scale = 0 THEN ""
                 ELSE "." \o FracDigits(x.q % Scale, Scale))

\* repr of a float: the shortest decimal that reads back as the same double,
\* always with a fractional part
float_repr(x) ==
    IF x.cls = "nan" THEN "nan"
    ELSE IF x.cls = "inf" THEN (IF x.neg THEN "-inf" ELSE "inf")
    ELSE (IF x.neg THEN "-" ELSE "") \o NatStr(x.q \div Scale) \o "."
             \o (IF x.q % Scale = 0 THEN "0"
                 ELSE FracDigits(x.q % Scale, Scale))

PyRepr(x) ==
    IF x.kind = "int" THEN int_str(x.v)
    ELSE IF x.kind = "float" THEN float_repr(x)
    ELSE IF x.kind = "str" THEN "'" \o x.s \o "'"
    ELSE "None"

RECURSIVE JoinRepr(_)
JoinRepr(xs) ==
    IF xs = <<>> THEN ""
    ELSE IF Len(xs) = 1 THEN PyRepr(xs[1])
    ELSE PyRepr(xs[1]) \o ", " \o JoinRepr(Tail(xs))

PyStrOf(x) ==
    IF x.kind = "str" THEN x.s
    ELSE IF x.kind = "list" THEN "[" \o JoinRepr(x.xs) \o "]"
    ELSE PyRepr(x)

-----------------------------------------------------------------------------
(* The function add.  A call is described by everything it can affect:     *)
(* its outcome, its two argument objects as they are when it ends, and the *)
(* lines it wrote to standard output.                                      *)

add_print(a, b) ==
    [ret |-> PyAdd(a, b), args |-> <<a, b>>, printed |-> <<"add called">>]

add_inplace(a, b) ==
    LET r == PyAdd(a, b)
    IN  [ret |-> r,
         args |-> <<IF r.ok /\ a.kind = "list" THEN r.val ELSE a, b>>,
         printed |-> <<>>]

add_accum(a, b) ==
    LET r == PyAdd(a, b)
    IN  [ret |-> IF r.ok /\ last.called /\ last.r.ret.ok
                 THEN PyAdd(r.val, last.r.ret.val) ELSE r,
         args |-> <<a, b>>, printed |-> <<>>]

add(a, b) == [ret |-> PyAdd(a, b), args |-> <<a, b>>, printed |-> <<>>]

NoCall == [called |-> FALSE]
CallOf(a, b, r) == [called |-> TRUE, a |-> a, b |-> b, r |-> r]

-----------------------------------------------------------------------------
(* The module body.  pc names the line about to run; a print statement     *)
(* whose f-string calls add runs in two steps, the call and then the       *)
(* print of the formatted line.                                            *)

ModuleNames == {"__main__", "calculator"}

Bind(g, n, v) == [x \in DOMAIN g \cup {n} |-> IF x = n THEN v ELSE g[x]]

Init ==
    /\ name \in ModuleNames
    /\ IF name = "__main__" THEN ix = PyNone /\ iy = PyNone
       ELSE ix \in Values /\ iy \in Values
    /\ icalls = 0
    /\ pc = "L1"
    /\ globals = [x \in {"__name__"} |-> PyStr(name)]
    /\ tmp = PyNone
    /\ stdout = <<>>
    /\ status = "running"
    /\ ncalls = 0
    /\ last = NoCall

\* line 1: def add(a, b)
DefAdd ==
    /\ pc = "L1"
    /\ globals' = Bind(globals, "add", PyFunction("add"))
    /\ pc' = "L15"
    /\ UNCHANGED <<name, tmp, stdout, status, ncalls, last, ix, iy, icalls>>

IsMain_always == TRUE

\* line 15: __name__ == "__main__"
IsMain == PyEq(globals["__name__"], PyStr("__main__"))

Guard ==
    /\ pc = "L15"
    /\ pc' = IF IsMain THEN "L17" ELSE "imported"
    /\ UNCHANGED <<name, globals, tmp, stdout, status, ncalls, last, ix, iy, icalls>>

\* line 17: num1 = 5
L17 ==
    /\ pc = "L17"
    /\ globals' = Bind(globals, "num1", PyInt(5))
    /\ pc' = "L18"
    /\ UNCHANGED <<name, tmp, stdout, status, ncalls, last, ix, iy, icalls>>

\* line 18: num2 = 3
L18 ==
    /\ pc = "L18"
    /\ globals' = Bind(globals, "num2", PyInt(3))
    /\ pc' = "L19"
    /\ UNCHANGED <<name, tmp, stdout, status, ncalls, last, ix, iy, icalls>>

\* A call add(a, b) made by the module's code at line `here`.  A raised
\* exception is not caught anywhere: the interpreter ends with status 1.
ModuleCall(here, a, b, next) ==
    /\ pc = here
    /\ "add" \in DOMAIN globals
    /\ LET r == add(a, b)
       IN  /\ last' = CallOf(a, b, r)
           /\ stdout' = stdout \o r.printed
           /\ tmp' = IF r.ret.ok THEN r.ret.val ELSE tmp
           /\ pc' = IF r.ret.ok THEN next ELSE "end"
           /\ status' = IF r.ret.ok THEN status ELSE "exit1"
    /\ ncalls' = ncalls + 1
    /\ UNCHANGED <<name, ix, iy, icalls>>

\* line 19: result = add(num1, num2)
L19 ==
    /\ ModuleCall("L19", globals["num1"], globals["num2"], "L20")
    /\ globals' = IF pc' = "L20" THEN Bind(globals, "result", tmp') ELSE globals

\* print(text): one line appended to standard output
PrintLine(here, text, next) ==
    /\ pc = here
    /\ stdout' = Append(stdout, text)
    /\ pc' = next
    /\ status' = IF next = "end" THEN "exit0" ELSE status
    /\ UNCHANGED <<name, globals, tmp, ncalls, last, ix, iy, icalls>>

\* line 20: print(f"{num1} + {num2} = {result}")
L20 ==
    PrintLine("L20",
              PyStrOf(globals["num1"]) \o " + " \o PyStrOf(globals["num2"])
                  \o " = " \o PyStrOf(globals["result"]),
              "L23")

\* line 23: print(f"10 + 20 = {add(10, 20)}")
L23call == ModuleCall("L23", PyInt(10), PyInt(20), "L23p") /\ UNCHANGED globals
L23print == PrintLine("L23p", "10 + 20 = " \o PyStrOf(tmp), "L24")

\* line 24: print(f"3.5 + 2.5 = {add(3.5, 2.5)}")
L24call == ModuleCall("L24", HalfLit(7), HalfLit(5), "L24p") /\ UNCHANGED globals
L24print == PrintLine("L24p", "3.5 + 2.5 = " \o PyStrOf(tmp), "L25")

\* line 25: print(f"-5 + 15 = {add(-5, 15)}"), the last statement
L25call == ModuleCall("L25", PyInt(-5), PyInt(15), "L25p") /\ UNCHANGED globals
L25print == PrintLine("L25p", "-5 + 15 = " \o PyStrOf(tmp), "end")

\* After "import calculator" the importing program calls add on its two
\* objects, in either order, several times, and handles what add raises.
\* ix and iy stay bound to the objects it passed.
ImporterCall ==
    /\ pc = "imported"
    /\ "add" \in DOMAIN globals
    /\ icalls < MaxCalls
    /\ \E swap \in BOOLEAN :
          LET a == IF swap THEN iy ELSE ix
              b == IF swap THEN ix ELSE iy
              r == add(a, b)
          IN  /\ last' = CallOf(a, b, r)
              /\ stdout' = stdout \o r.printed
              /\ ix' = IF swap THEN r.args[2] ELSE r.args[1]
              /\ iy' = IF swap THEN r.args[1] ELSE r.args[2]
    /\ icalls' = icalls + 1
    /\ UNCHANGED <<name, pc, globals, tmp, status, ncalls>>

Next ==
    \/ DefAdd
    \/ Guard
    \/ L17
    \/ L18
    \/ L19
    \/ L20
    \/ L23call
    \/ L23print
    \/ L24call
    \/ L24print
    \/ L25call
    \/ L25print
    \/ ImporterCall

Spec == Init /\ [][Next]_vars

\* The interpreter always runs the next statement of a running program.
FairSpec == Spec /\ WF_vars(Next)

-----------------------------------------------------------------------------
(* Properties.  `last` is the most recent call of add: its arguments a and *)
(* b and what the call did (r.ret, r.args, r.printed).                     *)

Returned(c) == c.called /\ c.r.ret.ok
Raised(c) == c.called /\ ~c.r.ret.ok
IsNaN(x) == x.kind = "float" /\ x.cls = "nan"
DriverCall(x, y) == last.called /\ last.a = x /\ last.b = y

\* C1: for every pair of integers a and b, positive, zero or negative,
\* add(a, b) returns exactly the integer a + b; in particular add(5, 3) = 8,
\* add(10, 20) = 30 and add(-5, 15) = 10.
C1_IntegerSum ==
    /\ (last.called /\ last.a.kind = "int" /\ last.b.kind = "int")
          => last.r.ret = Ok(PyBig(last.a.v + last.b.v, last.a.h + last.b.h))
    /\ DriverCall(PyInt(5), PyInt(3)) => last.r.ret = Ok(PyInt(8))
    /\ DriverCall(PyInt(10), PyInt(20)) => last.r.ret = Ok(PyInt(30))
    /\ DriverCall(PyInt(-5), PyInt(15)) => last.r.ret = Ok(PyInt(10))

C1_Witness ==
    /\ DriverCall(PyInt(-5), PyInt(15))
    /\ last.r.ret = Ok(PyInt(10))

\* C2: a call of add with one non-numeric operand and one numeric operand,
\* in either order, raises an error and returns no value (no coercion).
C2_MixedOperandsFail ==
    (last.called /\ IsNumeric(last.a) # IsNumeric(last.b)) => Raised(last)

C2_Witness ==
    /\ Raised(last)
    /\ last.a \in Ints \cup Floats
    /\ last.b = PyStr("a")

\* C3 as stated: whenever at least one operand is not numeric, add raises
\* TypeError and returns no value, two operands of the same non-numeric
\* kind included.
C3_AnyNonNumericRaises ==
    (last.called /\ (~IsNumeric(last.a) \/ ~IsNumeric(last.b)))
        => (Raised(last) /\ last.r.ret.exc = "TypeError")

\* C3 as amended: when at least one operand is not numeric, add raises
\* TypeError (and no other kind of error) and returns no value, except that
\* two strings, or two lists, are concatenated and the result returned.
C3_NonNumericRaisesUnlessConcat ==
    (last.called /\ (~IsNumeric(last.a) \/ ~IsNumeric(last.b)))
        => IF last.a.kind = "str" /\ last.b.kind = "str"
           THEN last.r.ret = Ok(PyStr(last.a.s \o last.b.s))
           ELSE IF last.a.kind = "list" /\ last.b.kind = "list"
           THEN last.r.ret = Ok(PyList(last.a.xs \o last.b.xs))
           ELSE Raised(last) /\ last.r.ret.exc = "TypeError"

C3_Witness ==
    /\ Raised(last)
    /\ last.a = PyNone
    /\ last.b \in Ints
    /\ last.r.ret.exc = "TypeError"

-----------------------------------------------------------------------------
Expected ==
    <<"5 + 3 = 8", "10 + 20 = 30", "3.5 + 2.5 = 6.0", "-5 + 15 = 10">>

IsPrefix(s, t) == Len(s) <= Len(t) /\ s = SubSeq(t, 1, Len(s))

DriverLines ==
    {"L17", "L18", "L19", "L20", "L23", "L23p", "L24", "L24p", "L25", "L25p"}

\* C4: a direct execution writes exactly the four lines "5 + 3 = 8",
\* "10 + 20 = 30", "3.5 + 2.5 = 6.0", "-5 + 15 = 10" to standard output, in
\* this order with nothing before, between or after them, and the result on
\* each line is the value add returned for that line's operands.
C4_FourLines ==
    name = "__main__" =>
        /\ IsPrefix(stdout, Expected)
        /\ pc = "end" => stdout = Expected
        /\ (pc \in {"L20", "L23p", "L24p", "L25p"})
              => (Returned(last) /\ tmp = last.r.ret.val)
        /\ pc = "L20" => globals["result"] = tmp

C4_Witness == name = "__main__" /\ pc = "end" /\ Len(stdout) = 4

\* C5: when the module is imported, the demonstration block does not run:
\* the module makes no call of add and writes nothing to standard output,
\* and add can be called after the import.
C5_ImportRunsNothing ==
    name # "__main__" =>
        /\ pc \notin DriverLines
        /\ ncalls = 0
        /\ stdout = <<>>
        /\ pc = "imported" => "add" \in DOMAIN globals
        /\ (pc = "imported" /\ icalls < MaxCalls) => ENABLED ImporterCall

C5_Witness == name # "__main__" /\ pc = "imported" /\ Returned(last)

-----------------------------------------------------------------------------
NumericCall == last.called /\ IsNumeric(last.a) /\ IsNumeric(last.b)

\* C6 as stated: for all numeric pairs (a, b), add(a, b) == add(b, a)
\* (read for the pairs on which add returns).
C6_Commutative ==
    (NumericCall /\ Returned(last)) =>
        LET swapped == add(last.b, last.a).ret
        IN  /\ swapped.ok
            /\ PyEq(last.r.ret.val, swapped.val)

\* C6 as amended: for all numeric pairs (a, b), add(b, a) returns when
\* add(a, b) does and raises the same error when add(a, b) raises (an int
\* beyond the range of a float, added to a float); the two results compare
\* equal unless add(a, b) is NaN (an operand is NaN, or the operands are
\* infinities of opposite sign), and then add(b, a) is NaN too.
C6_CommutativeUnlessNaN ==
    NumericCall =>
        LET swapped == add(last.b, last.a).ret
        IN  IF Raised(last) THEN swapped = last.r.ret
            ELSE /\ swapped.ok
                 /\ IF IsNaN(last.r.ret.val) THEN IsNaN(swapped.val)
                    ELSE PyEq(last.r.ret.val, swapped.val)

C6_Witness ==
    /\ Returned(last)
    /\ last.a = PyInt(1)
    /\ last.b.kind = "float"
    /\ last.b.cls = "fin"
    /\ last.b.neg
    /\ last.b.q = 1

\* C7 as stated: for every numeric a, add(a, 0) == a and add(0, a) == a.
C7_ZeroIdentity ==
    /\ (NumericCall /\ last.b = PyInt(0))
          => (Returned(last) /\ PyEq(last.r.ret.val, last.a))
    /\ (NumericCall /\ last.a = PyInt(0))
          => (Returned(last) /\ PyEq(last.r.ret.val, last.b))

\* C7 as amended: for every numeric a other than NaN, add(a, 0) == a and
\* add(0, a) == a; for a NaN both calls return NaN.
C7_ZeroIdentityUnlessNaN ==
    /\ (NumericCall /\ last.b = PyInt(0))
          => /\ Returned(last)
             /\ IF IsNaN(last.a) THEN IsNaN(last.r.ret.val)
                ELSE PyEq(last.r.ret.val, last.a)
    /\ (NumericCall /\ last.a = PyInt(0))
          => /\ Returned(last)
             /\ IF IsNaN(last.b) THEN IsNaN(last.r.ret.val)
                ELSE PyEq(last.r.ret.val, last.b)

C7_Witness ==
    /\ Returned(last)
    /\ last.a = PyInt(0)
    /\ last.b.kind = "float"
    /\ last.b.cls = "fin"
    /\ last.b.q = 1

\* C8: a call of add, whether it returns or raises, writes nothing to
\* standard output, leaves its arguments and the program's state unchanged
\* (the caller's own binding of the result aside), and gives the same
\* outcome as the call before it when the arguments are the same.
C8_NoSideEffects ==
    [][(ncalls' # ncalls \/ icalls' # icalls) =>
          /\ last'.r.printed = <<>>
          /\ last'.r.args = <<last'.a, last'.b>>
          /\ stdout' = stdout
          /\ name' = name
          /\ ix' = ix
          /\ iy' = iy
          /\ \A n \in DOMAIN globals :
                /\ n \in DOMAIN globals'
                /\ n # "result" => globals'[n] = globals[n]
          /\ DOMAIN globals' \subseteq DOMAIN globals \cup {"result"}
          /\ (last.called /\ last'.a = last.a /\ last'.b = last.b)
                => last'.r.ret = last.r.ret]_vars

C8_Witness ==
    /\ icalls = MaxCalls
    /\ Raised(last)
    /\ last.a.kind = "list"
    /\ ix = last.b
    /\ stdout = <<>>

\* C9: the result add returns is an int when both operands are ints and a
\* float when at least one operand is a float and the other is numeric (a
\* mixed pair is promoted to float); add(3.5, 2.5) is the float 6.0, not
\* the int 6.
C9_ResultKind ==
    /\ (NumericCall /\ Returned(last)) =>
          last.r.ret.val.kind =
              (IF last.a.kind = "int" /\ last.b.kind = "int"
               THEN "int" ELSE "float")
    /\ (NumericCall /\ FitsFloat(last.a) /\ FitsFloat(last.b)) => Returned(last)
    /\ DriverCall(HalfLit(7), HalfLit(5))
          => /\ last.r.ret.val = HalfLit(12)
             /\ last.r.ret.val # PyInt(6)
             /\ PyStrOf(last.r.ret.val) = "6.0"

C9_Witness ==
    /\ Returned(last)
    /\ last.a = PyInt(1)
    /\ last.b = PyFin(FALSE, Scale)
    /\ last.r.ret.val = PyFin(FALSE, 2 * Scale)

\* C10: every direct execution ends normally (status 0) with the fourth line
\* printed, after exactly four calls of add, all with numeric operands; the
\* unhandled-error exit is never reached.
C10_DirectRunTerminates ==
    /\ [](name = "__main__" =>
            /\ status # "exit1"
            /\ last.called => (IsNumeric(last.a) /\ IsNumeric(last.b))
            /\ ncalls <= 4
            /\ status = "exit0" => (pc = "end" /\ ncalls = 4 /\ Len(stdout) = 4))
    /\ (name = "__main__") ~> (status = "exit0")

C10_Witness == name = "__main__" /\ status = "exit0" /\ ncalls = 4

====
